---- MODULE Spec2Model ----
(***************************************************************************)
(* Model of src/src/moving_puzzle_objects.py: the Direction and Turn       *)
(* enumerations and the Movable class (turn, move, reset).                 *)
(*                                                                         *)
(* Python tuples and lists are 0-indexed, TLA+ sequences 1-indexed: the    *)
(* source's pos[0] (x, column) is pos[1] here and pos[1] (y, row) is       *)
(* pos[2]; grid[y] is grid[y + 1].                                         *)
(*                                                                         *)
(* A call that raises leaves the object as it was at the point of the      *)
(* raise; the exception goes to the caller, who may go on using the        *)
(* object.  The outcome of the last call is kept in the variable last.     *)
(***************************************************************************)
EXTENDS Integers, Sequences, FiniteSets, TLC

\* ---------------------------------------------------------------- bounds
\* grids passed to move have at most MaxRows rows of at most MaxCols cells
MaxRows == 2
MaxCols == 3
\* construction coordinates range over -1..MaxStart (out-of-grid included)
MaxStart == 3
\* number of rotations applied in a row by the rotation driver
MaxTurns == 4
\* with two Movables, construction coordinates range over 0..MaxPairStart
MaxPairStart == 1

\* ------------------------------------------------------------- Direction
\* class Direction(Enum): the four members, by name
Direction == {"UP", "DOWN", "LEFT", "RIGHT"}

\* Direction.<member>.value: the displacement (x, y), +y downward
value(d) ==
    CASE d = "UP"    -> <<0, -1>>
      [] d = "DOWN"  -> <<0, 1>>
      [] d = "LEFT"  -> <<-1, 0>>
      [] d = "RIGHT" -> <<1, 0>>

\* ------------------------------------------------------------------ Turn
\* The two names bound in the body of class Turn.
TurnNames == {"RIGHT", "LEFT"}

\* A plausible slip in the lambda: the second component reuses dir[1].
Turn_RIGHT_samecomp(dir) == <<-dir[2], -dir[2]>>

\* RIGHT = lambda dir: (-dir[1], -dir[0])
Turn_RIGHT(dir) == <<-dir[2], -dir[1]>>

\* LEFT = lambda dir: (dir[1], dir[0])
Turn_LEFT(dir) == <<dir[2], dir[1]>>

\* Calling Turn.RIGHT(v) / Turn.LEFT(v) directly on a 2-tuple v.
Turn_call(t, v) == IF t = "RIGHT" THEN Turn_RIGHT(v) ELSE Turn_LEFT(v)

\* The members of the Enum Turn.  A function defined in an Enum class body
\* is a descriptor, and the Enum machinery leaves descriptors as plain class
\* attributes: list(Turn) is [], Turn.RIGHT and Turn.LEFT are plain function
\* objects, and Turn.__init__ (which would set get_new_dir on a member) is
\* never run.
Turn_members == {}

\* hasattr(Turn.<t>, 'get_new_dir'): only a member would carry it.
has_get_new_dir(t) == t \in Turn_members

\* --------------------------------------------------------------- Movable
\* Movable.__init__(pos, dir): the object as a record of its four fields
Movable_init(p, d) ==
    [start_pos |-> p, start_dir |-> d, pos |-> p, dir |-> d]

\* outcome of a call: the object afterwards, the exception raised (or
\* "none") and the returned value
Return(obj) == [self |-> obj, exc |-> "none", ret |-> "None"]
Raise(obj, e) == [self |-> obj, exc |-> e, ret |-> "-"]

\* Slip: the lookup and the call succeed and the lambda's result, a plain
\* tuple and not a Direction member (written "tuple"), is stored.
turn_stores_tuple(self, t) == Return([self EXCEPT !.dir = "tuple"])

\* Movable.turn(turn):  self.__dir = turn.get_new_dir(self.__dir)
\* The attribute lookup turn.get_new_dir is evaluated first; on the function
\* object Turn.<t> it raises AttributeError before anything is assigned.
\* (On a member it would call the lambda with the Direction member itself,
\* which is not subscriptable: TypeError, again before the assignment.)
turn(self, t) ==
    IF ~ has_get_new_dir(t)
    THEN Raise(self, "AttributeError")
    ELSE Raise(self, "TypeError")

\* list.__getitem__(i) of Python: negative indices count from the end,
\* anything outside -len..len-1 raises IndexError
getitem(list, i) ==
    IF 0 <= i /\ i < Len(list)
    THEN [exc |-> "none", val |-> list[i + 1]]
    ELSE IF -Len(list) <= i /\ i < 0
    THEN [exc |-> "none", val |-> list[Len(list) + i + 1]]
    ELSE [exc |-> "IndexError", val |-> <<>>]

\* new_coords = [self.__pos[i] + self.__dir.value[i] for i in range(2)]
new_coords_of(self) ==
    <<self.pos[1] + value(self.dir)[1], self.pos[2] + value(self.dir)[2]>>

\* Slip: the column is checked against the first row's length.
move_firstrow(self, grid) ==
    LET new_coords == new_coords_of(self)
    IN  IF ~ (0 <= new_coords[2] /\ new_coords[2] < Len(grid))
        THEN Return(self)
        ELSE LET row == getitem(grid, 0)
             IN  IF row.exc # "none"
                 THEN Raise(self, row.exc)
                 ELSE IF 0 <= new_coords[1] /\ new_coords[1] < Len(row.val)
                      THEN Return([self EXCEPT !.pos = new_coords])
                      ELSE Return(self)

\* Slip: the two halves of the condition in the other order, so that
\* grid[new_coords[1]] is indexed before the row index is checked.
move_colfirst(self, grid) ==
    LET new_coords == new_coords_of(self)
        row == getitem(grid, new_coords[2])
    IN  IF row.exc # "none"
        THEN Raise(self, row.exc)
        ELSE IF 0 <= new_coords[1] /\ new_coords[1] < Len(row.val)
                /\ 0 <= new_coords[2] /\ new_coords[2] < Len(grid)
             THEN Return([self EXCEPT !.pos = new_coords])
             ELSE Return(self)

\* Slip: an accepted move also overwrites the remembered start position.
move_setsstart(self, grid) ==
    LET new_coords == new_coords_of(self)
    IN  IF ~ (0 <= new_coords[2] /\ new_coords[2] < Len(grid))
        THEN Return(self)
        ELSE LET row == getitem(grid, new_coords[2])
             IN  IF row.exc # "none"
                 THEN Raise(self, row.exc)
                 ELSE IF 0 <= new_coords[1] /\ new_coords[1] < Len(row.val)
                      THEN Return([self EXCEPT !.pos = new_coords,
                                               !.start_pos = new_coords])
                      ELSE Return(self)

\* Slip: the column bound is inclusive (<= len(row) instead of < len(row)).
move_inclusive(self, grid) ==
    LET new_coords == new_coords_of(self)
    IN  IF ~ (0 <= new_coords[2] /\ new_coords[2] < Len(grid))
        THEN Return(self)
        ELSE LET row == getitem(grid, new_coords[2])
             IN  IF row.exc # "none"
                 THEN Raise(self, row.exc)
                 ELSE IF 0 <= new_coords[1] /\ new_coords[1] <= Len(row.val)
                      THEN Return([self EXCEPT !.pos = new_coords])
                      ELSE Return(self)

\* Movable.move(grid):
\*   if 0 <= new_coords[1] < len(grid)
\*      and 0 <= new_coords[0] < len(grid[new_coords[1]]):
\*       self.__pos = new_coords
\* `and` evaluates its right operand only when the left one is true.
move(self, grid) ==
    LET new_coords == new_coords_of(self)
    IN  IF ~ (0 <= new_coords[2] /\ new_coords[2] < Len(grid))
        THEN Return(self)
        ELSE LET row == getitem(grid, new_coords[2])
             IN  IF row.exc # "none"
                 THEN Raise(self, row.exc)
                 ELSE IF 0 <= new_coords[1] /\ new_coords[1] < Len(row.val)
                      THEN Return([self EXCEPT !.pos = new_coords])
                      ELSE Return(self)

\* Slip: the row is indexed whatever the row index is.
move_reads_always(self, grid) == {new_coords_of(self)[2]}

\* The indices i for which move evaluates grid[i]: the right operand of the
\* `and`, len(grid[new_coords[1]]), is evaluated only when
\* 0 <= new_coords[1] < len(grid) was true.
move_reads(self, grid) ==
    LET new_coords == new_coords_of(self)
    IN  IF 0 <= new_coords[2] /\ new_coords[2] < Len(grid)
        THEN {new_coords[2]}
        ELSE {}

\* Slip: an accepted move marks the cell it enters.
move_grid_marks(self, grid) ==
    LET new_coords == new_coords_of(self)
    IN  IF move(self, grid).self.pos # self.pos
        THEN [grid EXCEPT ![new_coords[2] + 1][new_coords[1] + 1] = "movable"]
        ELSE grid

\* The caller's grid object after move(grid): move takes len(grid) and
\* len(grid[...]) and has no assignment to grid or to any of its rows.
move_grid(self, grid) == grid

\* Slip: reset restores the direction only.
reset_dironly(self) ==
    Return([self EXCEPT !.dir = self.start_dir])

\* Slip: reset exchanges the current and the start position.
reset_swap(self) ==
    Return([self EXCEPT !.pos = self.start_pos, !.start_pos = self.pos,
                        !.dir = self.start_dir])

\* Slip: the assignments of reset written the other way round.
reset_reversed(self) ==
    Return([self EXCEPT !.start_pos = self.pos, !.start_dir = self.dir])

\* Movable.reset()
reset(self) ==
    Return([self EXCEPT !.pos = self.start_pos, !.dir = self.start_dir])

\* ------------------------------------------------------------------ state
VARIABLES
    ctor_pos, ctor_dir,     \* the arguments passed to Movable(pos, dir)
    start_pos, start_dir,   \* self.__start_pos, self.__start_dir
    pos, dir,               \* self.__pos, self.__dir
    last,                   \* the last call: name, arguments, object before
                            \* it, exception raised, value returned, rows of
                            \* the grid it indexed, the grid after it
    grid0,                  \* the caller's grid, when it uses one grid for
                            \* every move (<<>> when it does not)
    vec, applied,           \* rotation driver: the vector obtained by
                            \* calling the Turn lambdas in `applied` order
    heap, movs, acted       \* two Movables "a" and "b": the position objects
                            \* by address, the two objects (position fields
                            \* hold addresses), and the last call made

pvars == <<heap, movs, acted>>

vars == <<ctor_pos, ctor_dir, start_pos, start_dir, pos, dir, last, grid0,
          vec, applied, heap, movs, acted>>

\* the object as a record
Self == [start_pos |-> start_pos, start_dir |-> start_dir,
         pos |-> pos, dir |-> dir]

\* ----------------------------------------------------------------- inputs
StartCoords == (-1) .. MaxStart

\* a row of n cells (move never reads a cell)
Row(n) == [i \in 1..n |-> "cell"]

RowsOfLen(k) == [1..k -> {Row(n) : n \in 0..MaxCols}]

\* the grids passed to move: 0..MaxRows rows, each of 0..MaxCols cells
Grids == UNION {RowsOfLen(k) : k \in 0..MaxRows}

\* ---------------------------------------------------------------- actions
Called(op, t, g, reads, gafter, res) ==
    /\ start_pos' = res.self.start_pos
    /\ start_dir' = res.self.start_dir
    /\ pos' = res.self.pos
    /\ dir' = res.self.dir
    /\ last' = [op |-> op, prev |-> last.op, turn |-> t, grid |-> g,
                pre |-> Self, exc |-> res.exc, ret |-> res.ret,
                reads |-> reads, grid_after |-> gafter]
    /\ UNCHANGED <<ctor_pos, ctor_dir, grid0, pvars>>

\* m = Movable(p, d)
Constructed ==
    /\ ctor_pos \in StartCoords \X StartCoords
    /\ ctor_dir \in Direction
    /\ start_pos = Movable_init(ctor_pos, ctor_dir).start_pos
    /\ start_dir = Movable_init(ctor_pos, ctor_dir).start_dir
    /\ pos = Movable_init(ctor_pos, ctor_dir).pos
    /\ dir = Movable_init(ctor_pos, ctor_dir).dir
    /\ last = [op |-> "__init__", prev |-> "-", turn |-> "-", grid |-> <<>>,
               pre |-> Movable_init(ctor_pos, ctor_dir),
               exc |-> "none", ret |-> "None",
               reads |-> {}, grid_after |-> <<>>]
    /\ vec = value(ctor_dir)
    /\ applied = <<>>

\* no second Movable
NoPair ==
    /\ heap = <<>>
    /\ movs = <<>>
    /\ acted = <<>>

Init ==
    /\ Constructed
    /\ grid0 = <<>>
    /\ NoPair

\* m.turn(Turn.<t>)
Turn(t) ==
    /\ Called("turn", t, <<>>, {}, <<>>, turn(Self, t))
    /\ UNCHANGED <<vec, applied>>

\* m.move(grid)
Move(grid) ==
    /\ Called("move", "-", grid, move_reads(Self, grid),
              move_grid(Self, grid), move(Self, grid))
    /\ UNCHANGED <<vec, applied>>

\* m.reset()
Reset ==
    /\ Called("reset", "-", <<>>, {}, <<>>, reset(Self))
    /\ UNCHANGED <<vec, applied>>

Next ==
    \/ \E t \in TurnNames : Turn(t)
    \/ \E grid \in Grids : Move(grid)
    \/ Reset

Spec == Init /\ [][Next]_vars

\* Rotation driver: starting from v = d.value, each step calls
\* v = Turn.<t>(v) and m.turn(Turn.<t>) on a Movable constructed facing d.
Rotate(t) ==
    /\ Len(applied) < MaxTurns
    /\ vec' = Turn_call(t, vec)
    /\ applied' = Append(applied, t)
    /\ Called("turn", t, <<>>, {}, <<>>, turn(Self, t))

NextRot == \E t \in TurnNames : Rotate(t)

SpecRot == Init /\ [][NextRot]_vars

\* A caller that owns one grid and passes it to every move.
InitFixed ==
    /\ Constructed
    /\ grid0 \in Grids
    /\ NoPair

MoveFixed == Move(grid0)

NextFixed ==
    \/ \E t \in TurnNames : Turn(t)
    \/ MoveFixed
    \/ Reset

SpecFixed == InitFixed /\ [][NextFixed]_vars

\* ------------------------------------------------------- two Movables
\* Python names refer to objects: a position field holds a reference to a
\* tuple or list.  The addresses are the constructor arguments ("arg_a",
\* "arg_b"; both Movables get "arg_a" when they are constructed from the
\* same object) and, for each Movable, the list built by its latest accepted
\* move ("list_a", "list_b"; the list of an earlier move is then garbage).
Names == {"a", "b"}
Other(k) == IF k = "a" THEN "b" ELSE "a"
ArgAddr(k) == IF k = "a" THEN "arg_a" ELSE "arg_b"
ListAddr(k) == IF k = "a" THEN "list_a" ELSE "list_b"
Addrs == {"arg_a", "arg_b", "list_a", "list_b"}
NoObject == <<>>

PairCoords == 0 .. MaxPairStart

\* rectangular grids
RectGrids ==
    {[i \in 1..r |-> Row(c)] : r \in 0..MaxRows, c \in 0..MaxCols}

\* the Movable m with its position fields dereferenced in heap h
View(h, m) ==
    [start_pos |-> h[m.start_pos], start_dir |-> m.start_dir,
     pos |-> h[m.pos], dir |-> m.dir]

\* Slip: the step is written into the object self.__pos refers to
\* (self.__pos[i] += ...) instead of binding a new list.
bind_pos_inplace(h, m, k, new_coords) ==
    [heap |-> [h EXCEPT ![m.pos] = new_coords], m |-> m]

\* self.__pos = new_coords: new_coords is the list just built by the
\* comprehension; the name __pos of Movable k is bound to it and no
\* existing object is written.
bind_pos(h, m, k, new_coords) ==
    [heap |-> [h EXCEPT ![ListAddr(k)] = new_coords],
     m |-> [m EXCEPT !.pos = ListAddr(k)]]

\* a = Movable(p, da); b = Movable(p, db) with the same object p, or
\* b = Movable(q, db) with an object q of its own
InitPair ==
    /\ Constructed
    /\ ctor_pos = <<0, 0>>
    /\ ctor_dir = "UP"
    /\ grid0 = <<>>
    /\ \E p \in PairCoords \X PairCoords, da \in Direction, db \in Direction :
          \/ /\ heap = [x \in Addrs |-> IF x = "arg_a" THEN p ELSE NoObject]
             /\ movs = [k \in Names |->
                          Movable_init("arg_a", IF k = "a" THEN da ELSE db)]
          \/ \E q \in PairCoords \X PairCoords :
                /\ heap = [x \in Addrs |-> IF x = "arg_a" THEN p
                                           ELSE IF x = "arg_b" THEN q
                                           ELSE NoObject]
                /\ movs = [k \in Names |->
                             Movable_init(ArgAddr(k),
                                          IF k = "a" THEN da ELSE db)]
    /\ acted = [who |-> "-", op |-> "__init__", moved |-> FALSE,
                other_pre |-> <<>>]

PairCalled(k, op, moved) ==
    /\ acted' = [who |-> k, op |-> op, moved |-> moved,
                 other_pre |-> View(heap, movs[Other(k)])]
    /\ UNCHANGED <<ctor_pos, ctor_dir, start_pos, start_dir, pos, dir, last,
                   grid0, vec, applied>>

\* movs[k].turn(Turn.<t>)
PairTurn(k, t) ==
    /\ movs' = [movs EXCEPT ![k].dir = turn(View(heap, movs[k]), t).self.dir]
    /\ heap' = heap
    /\ PairCalled(k, "turn", FALSE)

\* movs[k].move(grid)
PairMove(k, grid) ==
    LET res == move(View(heap, movs[k]), grid)
        accepted == res.self.pos # heap[movs[k].pos]
        bound == bind_pos(heap, movs[k], k, res.self.pos)
    IN  /\ heap' = IF accepted THEN bound.heap ELSE heap
        /\ movs' = IF accepted THEN [movs EXCEPT ![k] = bound.m] ELSE movs
        /\ PairCalled(k, "move", accepted)

\* movs[k].reset(): the names are bound to the start objects
PairReset(k) ==
    /\ movs' = [movs EXCEPT ![k] = reset(movs[k]).self]
    /\ heap' = heap
    /\ PairCalled(k, "reset", FALSE)

NextPair ==
    \E k \in Names :
        \/ \E t \in TurnNames : PairTurn(k, t)
        \/ \E grid \in RectGrids : PairMove(k, grid)
        \/ PairReset(k)

SpecPair == InitPair /\ [][NextPair]_vars

\* ---------------------------------------------------------- claims' terms
\* the Direction whose displacement is v (v one of the four vectors)
direction_of(v) == CHOOSE d \in Direction : value(d) = v

\* rotate(d, t) of the specification: the Turn lambda on d's vector
rotate(d, t) == direction_of(Turn_call(t, value(d)))

\* reference table of the 90-degree rotations in screen coordinates
ClockwiseOf(d) ==
    CASE d = "UP"    -> "RIGHT"
      [] d = "RIGHT" -> "DOWN"
      [] d = "DOWN"  -> "LEFT"
      [] d = "LEFT"  -> "UP"

CounterClockwiseOf(d) ==
    CASE d = "UP"    -> "LEFT"
      [] d = "LEFT"  -> "DOWN"
      [] d = "DOWN"  -> "RIGHT"
      [] d = "RIGHT" -> "UP"

\* the cell the last call's object was facing, and whether it is a cell of
\* the grid g: row y in [0, rows) and column x in [0, length of row y)
Candidate(obj) ==
    <<obj.pos[1] + value(obj.dir)[1], obj.pos[2] + value(obj.dir)[2]>>

IsCell(c, g) ==
    /\ c[2] \in 0 .. (Len(g) - 1)
    /\ c[1] \in 0 .. (Len(g[c[2] + 1]) - 1)

\* ------------------------------------------------------------------ C1
\* C1: ROTATE_LEFT then ROTATE_RIGHT, and ROTATE_RIGHT then ROTATE_LEFT,
\* applied to any direction d give d back (checked under SpecRot).
C1_RotationsAreInverses ==
    (applied = <<"LEFT", "RIGHT">> \/ applied = <<"RIGHT", "LEFT">>)
        => vec = value(ctor_dir)

\* ------------------------------------------------------------------ C2
\* C2: ROTATE_RIGHT maps UP->RIGHT->DOWN->LEFT->UP (clockwise) and
\* ROTATE_LEFT maps UP->LEFT->DOWN->RIGHT->UP (counter-clockwise): one
\* application of the lambda agrees with the table (checked under SpecRot).
C2_RotateMatchesTable ==
    /\ applied = <<"RIGHT">> => vec = value(ClockwiseOf(ctor_dir))
    /\ applied = <<"LEFT">> => vec = value(CounterClockwiseOf(ctor_dir))

\* ------------------------------------------------------------------ C3
\* C3: the same rotation applied four times in a row to a direction d gives
\* d, and four turn(r) calls on a Movable leave its direction as it was
\* before the first (checked under SpecRot).
C3_FourTurnsIdentity ==
    \A t \in TurnNames :
        applied = <<t, t, t, t>> => (vec = value(ctor_dir) /\ dir = ctor_dir)

C3_Witness ==
    /\ applied = <<"RIGHT", "RIGHT", "RIGHT", "RIGHT">>
    /\ ctor_dir = "UP"
    /\ last.op = "turn"

\* ------------------------------------------------------------------ C4
\* C4: move(grid) sets position to position + vector(direction) exactly
\* when that candidate is a cell of the grid (row within the grid, column
\* within the TARGET row); in every other case position is unchanged.
C4_MoveIffCandidateIsCell ==
    last.op = "move" =>
        pos = IF IsCell(Candidate(last.pre), last.grid)
              THEN Candidate(last.pre)
              ELSE last.pre.pos

\* an accepted step into a row whose length differs from the row left
C4_Witness ==
    /\ last.op = "move"
    /\ pos # last.pre.pos
    /\ pos = Candidate(last.pre)
    /\ last.pre.pos[2] \in 0 .. (Len(last.grid) - 1)
    /\ Len(last.grid[pos[2] + 1]) # Len(last.grid[last.pre.pos[2] + 1])

\* ------------------------------------------------------------------ C5
\* C5: a move whose candidate is not a cell of the grid raises nothing,
\* returns what an accepted move returns (None) and leaves position,
\* direction, start_position and start_direction unchanged.
C5_RejectedMoveIsSilentNoOp ==
    last.op = "move" =>
        /\ last.ret = "None"
        /\ ~ IsCell(Candidate(last.pre), last.grid) =>
              /\ last.exc = "none"
              /\ Self = last.pre

\* a Movable in the last row facing DOWN
C5_Witness ==
    /\ last.op = "move"
    /\ Len(last.grid) > 0
    /\ last.pre.pos[2] = Len(last.grid) - 1
    /\ last.pre.pos[1] \in 0 .. (Len(last.grid[Len(last.grid)]) - 1)
    /\ last.pre.dir = "DOWN"
    /\ pos = last.pre.pos

\* ------------------------------------------------------------------ C6
\* C6: after any sequence of turn and move calls followed by reset(),
\* position and direction are those passed at construction.
C6_ResetRestoresConstruction ==
    last.op = "reset" => (pos = ctor_pos /\ dir = ctor_dir)

\* reset called after an accepted move
C6_Witness ==
    /\ last.op = "reset"
    /\ last.prev = "move"
    /\ last.pre.pos # ctor_pos
    /\ pos = ctor_pos

\* ------------------------------------------------------------------ C7
\* C7: reset() is idempotent: a reset() called right after a reset()
\* leaves position, direction, start_position and start_direction as the
\* first one left them.
C7_ResetIdempotent ==
    (last.op = "reset" /\ last.prev = "reset") => Self = last.pre

C7_Witness ==
    /\ last.op = "reset"
    /\ last.prev = "reset"
    /\ pos = start_pos

\* ------------------------------------------------------------------ C8
\* C8: turn(rotation) replaces the direction with
\* rotate(direction, rotation) and changes nothing else.
C8_TurnRotatesDirectionOnly ==
    last.op = "turn" =>
        /\ dir = rotate(last.pre.dir, last.turn)
        /\ pos = last.pre.pos
        /\ start_pos = last.pre.start_pos
        /\ start_dir = last.pre.start_dir

\* ------------------------------------------------------------------ C9
\* C9: for a Movable facing RIGHT, turn(ROTATE_RIGHT) makes the direction
\* DOWN, and a move that follows, on a grid where the cell below is a cell
\* of the grid, increases the row index by one and keeps the column.
C9_TurnThenMoveStepsDown ==
    [][ ( /\ last.op = "turn"
          /\ last.turn = "RIGHT"
          /\ last.pre.dir = "RIGHT"
          /\ last'.op = "move"
          /\ IsCell(<<pos[1], pos[2] + 1>>, last'.grid) )
        => ( /\ dir = "DOWN"
             /\ dir' = "DOWN"
             /\ pos' = <<pos[1], pos[2] + 1>> ) ]_vars

\* ------------------------------------------------------------------ C10
\* C10: construction, turn(r) and reset() complete without an exception,
\* and no sequence of turn / move / reset calls raises one.
C10_NoCallRaises ==
    last.exc = "none"

\* ------------------------------------------------------------------ C11
\* C11: move(grid), accepted or rejected, never changes the direction,
\* start_position or start_direction.
C11_MoveChangesPositionOnly ==
    last.op = "move" =>
        /\ dir = last.pre.dir
        /\ start_pos = last.pre.start_pos
        /\ start_dir = last.pre.start_dir

\* an accepted move
C11_Witness ==
    /\ last.op = "move"
    /\ pos = Candidate(last.pre)
    /\ pos # last.pre.pos
    /\ dir = last.pre.dir

\* ------------------------------------------------------------------ C12
\* C12: in every state reached by turn, move and reset calls,
\* start_position and start_direction are the constructor's arguments.
C12_StartFieldsImmutable ==
    /\ start_pos = ctor_pos
    /\ start_dir = ctor_dir

\* an accepted move made after a reset
C12_Witness ==
    /\ last.op = "move"
    /\ last.prev = "reset"
    /\ pos # ctor_pos
    /\ start_pos = ctor_pos

\* ------------------------------------------------------------------ C13
\* C13: in every state reached by turn, move and reset calls the direction
\* is one of UP, DOWN, LEFT, RIGHT, and each rotation maps its vector to one
\* of the four displacement vectors.
C13_DirectionIsCompassValue ==
    /\ dir \in Direction
    /\ \A t \in TurnNames :
          Turn_call(t, value(dir)) \in {value(d) : d \in Direction}

\* two turn calls in a row have been made
C13_Witness ==
    /\ last.op = "turn"
    /\ last.prev = "turn"
    /\ dir \in Direction

\* ------------------------------------------------------------------ C14
\* C14: in every reachable state turn(ROTATE_LEFT), turn(ROTATE_RIGHT),
\* move(grid) and reset() can each be called and complete, yielding a
\* successor state.
C14_EveryCallYieldsSuccessor ==
    /\ \A t \in TurnNames : ENABLED (Turn(t) /\ last'.exc = "none")
    /\ \A g \in Grids : ENABLED (Move(g) /\ last'.exc = "none")
    /\ ENABLED (Reset /\ last'.exc = "none")

\* ------------------------------------------------------------------ C15
\* C15: a turn, move or reset on one of two Movables leaves the other's
\* position, direction, start_position and start_direction as they were,
\* also when both were constructed from the same position object, under
\* every interleaving (checked under SpecPair).
C15_InstancesShareNoState ==
    acted.who \in Names =>
        View(heap, movs[Other(acted.who)]) = acted.other_pre

\* an accepted move of one of two Movables constructed from the same object
C15_Witness ==
    /\ acted.op = "move"
    /\ acted.moved
    /\ movs["a"].start_pos = movs["b"].start_pos
    /\ View(heap, movs[Other(acted.who)]) = acted.other_pre

\* ------------------------------------------------------------------ C16
\* C16: the grid is the same after a move call as before it, accepted or
\* rejected, and the call is decided by the grid passed to it alone (not by
\* a grid passed to an earlier call).
C16_GridReadOnlyNotRetained ==
    last.op = "move" =>
        /\ last.grid_after = last.grid
        /\ (pos # last.pre.pos) <=> IsCell(Candidate(last.pre), last.grid)

\* a step accepted by this call's grid from a position that an earlier
\* call's grid accepted and that is not a cell of this call's grid
C16_Witness ==
    /\ last.op = "move"
    /\ last.prev = "move"
    /\ pos # last.pre.pos
    /\ last.pre.pos # ctor_pos
    /\ ~ IsCell(last.pre.pos, last.grid)
    /\ last.grid_after = last.grid

\* ------------------------------------------------------------------ C17
\* C17: with one grid used for every move, a Movable constructed on a cell
\* of the grid is on a cell of the grid after every sequence of turn, move
\* and reset calls (checked under SpecFixed, ragged grids included).
C17_StaysInBounds ==
    IsCell(ctor_pos, grid0) => IsCell(pos, grid0)

\* a step into a shorter row, rejected though the column exists in the
\* row the Movable stands on
C17_Witness ==
    /\ IsCell(ctor_pos, grid0)
    /\ last.op = "move"
    /\ pos = last.pre.pos
    /\ Candidate(last.pre)[2] \in 0 .. (Len(grid0) - 1)
    /\ Candidate(last.pre)[2] # pos[2]
    /\ Candidate(last.pre)[1] >= Len(grid0[Candidate(last.pre)[2] + 1])

\* ------------------------------------------------------------------ C18
\* C18: move indexes the grid only with a row index in [0, number of
\* rows): it never reads a row that does not exist (no IndexError) and
\* never reads a row through a negative index.
C18_RowReadOnlyWhenInRange ==
    last.op = "move" =>
        /\ \A i \in last.reads : 0 <= i /\ i < Len(last.grid)
        /\ last.exc = "none"

\* a candidate in row -1 of a grid that has rows
C18_Witness ==
    /\ last.op = "move"
    /\ Candidate(last.pre)[2] < 0
    /\ Len(last.grid) > 0
    /\ last.reads = {}
    /\ pos = last.pre.pos

\* ------------------------------------------------------------------ C19
\* the cells of grid g
Cells(g) ==
    {c \in (0 .. MaxCols) \X (0 .. MaxRows) : IsCell(c, g)}

IsRectangular(g) ==
    \A i, j \in 1 .. Len(g) : Len(g[i]) = Len(g[j])

\* the (position, direction) pairs one turn or move call away from those
\* of S, for a Movable constructed with (p0, d0) and moving on g
OneCall(S, g, p0, d0) ==
    LET obj(s) == [start_pos |-> p0, start_dir |-> d0,
                   pos |-> s[1], dir |-> s[2]]
        after(r) == <<r.self.pos, r.self.dir>>
    IN  S \cup {after(turn(obj(s), t)) : s \in S, t \in TurnNames}
          \cup {after(move(obj(s), g)) : s \in S}

RECURSIVE ReachableFrom(_, _, _, _)
ReachableFrom(S, g, p0, d0) ==
    LET N == OneCall(S, g, p0, d0)
    IN  IF N = S THEN S ELSE ReachableFrom(N, g, p0, d0)

\* C19: on a rectangular grid with at least one cell, from any start cell
\* and start direction, every cell with every direction is reached by some
\* finite sequence of turn and move calls (checked under SpecFixed).
C19_EveryCellAndFacingReachable ==
    (IsRectangular(grid0) /\ IsCell(ctor_pos, grid0)) =>
        \A c \in Cells(grid0), d \in Direction :
            <<c, d>> \in ReachableFrom({<<ctor_pos, ctor_dir>>}, grid0,
                                       ctor_pos, ctor_dir)

====
